---- MODULE Spec2Model ----
(***************************************************************************)
(* Access-decision engine of iono-pi-access-control (src/src/database.py): *)
(* LocalDatabase (SQLite cache + audit log), RemoteVerifier (HTTP client), *)
(* AccessVerifier.verify_access and the periodic cache cleanup.            *)
(*                                                                         *)
(* Time is counted in whole hours of UTC.  SQLite's CURRENT_TIMESTAMP is   *)
(* UTC, Python's datetime.now() is naive local time: tz is the offset of   *)
(* the host's local time from UTC, fixed for a run.                        *)
(*                                                                         *)
(* Optional values (Python None / SQL NULL) are sequences of length <= 1.  *)
(***************************************************************************)
EXTENDS Integers, Sequences, FiniteSets, TLC

----------------------------------------------------------------------------
(* Bounds of the model *)

MaxCalls == 2
MaxTicks == 1
MaxFaults == 1
MaxSleeps == 3
MaxRequests == 2
MaxSeconds == 9
MaxReads == 1
MaxEvents == 1002

----------------------------------------------------------------------------
(* Domains of the inputs *)

Barcodes == {"123456789", "999999999"}
Calls == 1..MaxCalls

(* Origin of each call: the scanner dispatcher and the API handler take    *)
(* turns (main.py:107 and api.py:164 pass "barcode", api.py:244 "api").    *)
SourceOf(c) == IF c % 2 = 1 THEN "barcode" ELSE "api"
TickSteps == {1, 25}
TZOffsets == {-1, 0, 1}
BaseUrls == {"", "https://example.com/api"}

None == <<>>
Some(x) == <<x>>

(* HTTP outcomes of client.post: status 0 stands for an exception raised   *)
(* by the request (timeout, connection failure).  json tells whether       *)
(* response.json() yields an object, another JSON value, or raises.        *)
RespGrant ==
    [status |-> 200, json |-> "object",
     data |-> [access_granted |-> TRUE, user_id |-> "user001",
               user_name |-> "John Doe", permissions |-> <<"door_access">>,
               expires_at |-> <<"iso", 1000>>, reason |-> "Welcome"]]
RespDeny ==
    [status |-> 200, json |-> "object",
     data |-> [name |-> "Jane Smith", expires_at |-> <<"not a date">>]]
RespArray == [status |-> 200, json |-> "array", data |-> [x \in {} |-> 0]]
RespInvalid == [status |-> 200, json |-> "invalid", data |-> [x \in {} |-> 0]]
Resp404 == [status |-> 404, json |-> "object", data |-> [x \in {} |-> 0]]
Resp500 == [status |-> 500, json |-> "invalid", data |-> [x \in {} |-> 0]]
RespTimeout == [status |-> 0, json |-> "invalid", data |-> [x \in {} |-> 0]]

Responses ==
    {RespGrant, RespDeny, RespArray, RespInvalid, Resp404, Resp500,
     RespTimeout}

----------------------------------------------------------------------------
(* Program constants *)

CacheValidityHours == 1
DefaultMaxAgeHours == 24
CleanupIntervalHours == 1

----------------------------------------------------------------------------
(* Pure helpers *)

(* dict.get(key): None when the key is absent *)
Get(data, key) == IF key \in DOMAIN data THEN Some(data[key]) ELSE None

(* dict.get(key, default) *)
GetOr(data, key, default) == IF key \in DOMAIN data THEN data[key] ELSE default

(* Python "x or default" on an optional string *)
OrElse(opt, default) == IF opt = None \/ opt = Some("") THEN default ELSE opt[1]

(* datetime.fromisoformat inside try/except: pass *)
ParseIso(text) == IF text[1] = "iso" THEN Some(text[2]) ELSE None

(* json.dumps / json.loads of a list of strings *)
JsonDumps(list) == <<"[">> \o list \o <<"]">>
JsonLoads(text) == SubSeq(text, 2, Len(text) - 1)

(* sqlite3 stores a Python bool as INTEGER 1/0; Python reads 1 == True *)
SqlBool(b) == IF b THEN 1 ELSE 0
PyTruth(i) == i # 0

(* sqlite3 adapts a datetime to ISO text; fromisoformat reads it back *)
SqlDatetime(opt) == IF opt = None THEN None ELSE Some(<<"iso", opt[1]>>)

AccessResult(granted, barcode, user_id, user_name, reason, expires, perms, cached) ==
    [granted |-> granted, barcode |-> barcode, user_id |-> user_id,
     user_name |-> user_name, reason |-> reason, expires_at |-> expires,
     permissions |-> perms, cached |-> cached]

(* AccessResult(granted=False, barcode=barcode, reason=reason) *)
Denied(barcode, reason) ==
    AccessResult(FALSE, barcode, None, None, Some(reason), None, None, FALSE)

----------------------------------------------------------------------------
(* RemoteVerifier *)

_parse_verification_response(barcode, resp) ==
    IF resp.json # "object"
    THEN Denied(barcode, "Invalid response format")
    ELSE LET data == resp.data
             granted == GetOr(data, "access_granted", FALSE)
             user_name == IF "user_name" \in DOMAIN data
                          THEN Some(data["user_name"])
                          ELSE Get(data, "name")
             reason == GetOr(data, "reason",
                             IF granted THEN "Access granted"
                                        ELSE "Access denied")
             permissions == GetOr(data, "permissions", <<>>)
             expires_at == IF "expires_at" \in DOMAIN data
                           THEN ParseIso(data["expires_at"])
                           ELSE None
         IN AccessResult(granted, barcode, Get(data, "user_id"), user_name,
                         Some(reason), expires_at, Some(permissions), FALSE)

(* Outcome of verify_barcode once client.post has resolved with resp:      *)
(* an optional AccessResult.                                               *)
verify_barcode(barcode, resp) ==
    IF resp.status = 0 THEN None
    ELSE IF resp.status = 200
         THEN IF resp.json = "invalid" THEN None
              ELSE Some(_parse_verification_response(barcode, resp))
         ELSE IF resp.status = 404
              THEN Some(Denied(barcode, "Barcode not found in database"))
              ELSE None

(* config.type != "http" or not base_url (type keeps its default "http") *)
RemoteConfigured(url) == url # ""

----------------------------------------------------------------------------
(* LocalDatabase: pure effect of each SQL statement on the tables *)

(* Variant: the table has no PRIMARY KEY, every write adds a row *)
InsertOrReplace_NoKey(table, row) == table \cup {row}

(* Variant: UPDATE of granted and cached_at on the row that is there *)
InsertOrReplace_PartialUpdate(table, row) ==
    IF \E r \in table : r.barcode = row.barcode
    THEN {IF r.barcode = row.barcode
          THEN [r EXCEPT !.granted = row.granted,
                         !.cached_at = row.cached_at]
          ELSE r : r \in table}
    ELSE table \cup {row}

(* Variant: plain INSERT, which the PRIMARY KEY rejects when a row for    *)
(* the barcode exists                                                      *)
InsertOrReplace_PlainInsert(table, row) ==
    IF \E r \in table : r.barcode = row.barcode THEN table
    ELSE table \cup {row}

(* INSERT OR REPLACE on a table whose PRIMARY KEY is barcode *)
InsertOrReplace(table, row) ==
    {r \in table : r.barcode # row.barcode} \cup {row}

(* Row written by cache_access_result; cached_at is not in the column     *)
(* list, so it takes DEFAULT CURRENT_TIMESTAMP (UTC).  reason is not a     *)
(* column of access_cache.                                                 *)
CacheRow(result, utcnow) ==
    [barcode |-> result.barcode,
     user_id |-> result.user_id,
     user_name |-> result.user_name,
     granted |-> SqlBool(result.granted),
     permissions |-> JsonDumps(IF result.permissions = None THEN <<>>
                               ELSE result.permissions[1]),
     expires_at |-> SqlDatetime(result.expires_at),
     cached_at |-> utcnow]

cache_access_result(table, result, utcnow) ==
    InsertOrReplace(table, CacheRow(result, utcnow))

(* A row conversion that leaves the barcode of the result empty *)
RowResult_NoBarcode(row) ==
    AccessResult(PyTruth(row.granted), "", row.user_id,
                 row.user_name, None,
                 IF row.expires_at = None THEN None
                 ELSE ParseIso(row.expires_at[1]),
                 Some(JsonLoads(row.permissions)), TRUE)

(* AccessResult built from a row of access_cache (cached=True, no reason) *)
RowResult(row) ==
    AccessResult(PyTruth(row.granted), row.barcode, row.user_id,
                 row.user_name, None,
                 IF row.expires_at = None THEN None
                 ELSE ParseIso(row.expires_at[1]),
                 Some(JsonLoads(row.permissions)), TRUE)

(* cache_age = datetime.now() - cached_at; valid while cache_age < 1 hour *)
CacheFresh(row, localnow) == localnow - row.cached_at < CacheValidityHours

(* SELECT ... WHERE barcode = ?, fetchone, freshness test *)
get_cached_access(table, barcode, localnow) ==
    LET rows == {r \in table : r.barcode = barcode}
    IN IF rows = {} THEN None
       ELSE LET row == CHOOSE r \in rows : TRUE
            IN IF CacheFresh(row, localnow) THEN Some(RowResult(row))
               ELSE None

(* Variant: the sweep blanks the user columns of the old rows instead of   *)
(* deleting them                                                           *)
cleanup_old_cache_BlanksRows(table, localnow, max_age_hours) ==
    {IF r.cached_at < localnow - max_age_hours
     THEN [r EXCEPT !.user_id = None, !.user_name = None]
     ELSE r : r \in table}

(* Variant: the sweep empties the table *)
cleanup_old_cache_DeletesAll(table, localnow, max_age_hours) == {}

(* DELETE FROM access_cache WHERE cached_at < now() - max_age_hours *)
cleanup_old_cache(table, localnow, max_age_hours) ==
    {r \in table : ~(r.cached_at < localnow - max_age_hours)}

(* What "await cleanup_old_cache()" evaluates to: the function has no      *)
(* return statement on either path (the DELETE's rowcount is not read, the *)
(* except branch only logs), so the caller gets Python's None              *)
cleanup_old_cache_returns(table, localnow, max_age_hours) == None

(* Variant: the origin is left at its default instead of the argument *)
AccessLog_DefaultSource(barcode, result, source, localnow) ==
    [id |-> 0, timestamp |-> localnow, barcode |-> barcode,
     granted |-> result.granted, user_id |-> result.user_id,
     user_name |-> result.user_name,
     reason |-> OrElse(result.reason,
                       IF result.granted THEN "Access granted"
                                         ELSE "Access denied"),
     source |-> "barcode"]

(* AccessLog built by verify_access from the decision *)
AccessLog(barcode, result, source, localnow) ==
    [id |-> 0, timestamp |-> localnow, barcode |-> barcode,
     granted |-> result.granted, user_id |-> result.user_id,
     user_name |-> result.user_name,
     reason |-> OrElse(result.reason,
                       IF result.granted THEN "Access granted"
                                         ELSE "Access denied"),
     source |-> source]

(* AccessLog built in the except branch of verify_access *)
ErrorAccessLog(barcode, source, localnow) ==
    [id |-> 0, timestamp |-> localnow, barcode |-> barcode,
     granted |-> FALSE, user_id |-> None, user_name |-> None,
     reason |-> "Verification error: client", source |-> source]

(* Variant: the row takes the place of the latest one *)
log_access_attempt_OverwritesLast(logs, entry) ==
    IF logs = <<>> THEN <<[entry EXCEPT !.id = 1]>>
    ELSE [logs EXCEPT ![Len(logs)] = [entry EXCEPT !.id = Len(logs)]]

(* Variant: the INSERT is never committed *)
log_access_attempt_NoCommit(logs, entry) == logs

(* INSERT INTO access_logs: id is INTEGER PRIMARY KEY AUTOINCREMENT *)
log_access_attempt(logs, entry) ==
    Append(logs, [entry EXCEPT !.id = Len(logs) + 1])

(* ORDER BY timestamp DESC as SQLite evaluates it on this table: greatest  *)
(* timestamp first, rows of equal timestamp in the order of the table      *)
(* scan, which is ascending id                                             *)
RECURSIVE OrderByTimestampDesc(_)
OrderByTimestampDesc(rows) ==
    IF rows = {} THEN <<>>
    ELSE LET first == CHOOSE r \in rows :
                          \A q \in rows :
                              \/ q.timestamp < r.timestamp
                              \/ q.timestamp = r.timestamp /\ q.id >= r.id
         IN <<first>> \o OrderByTimestampDesc(rows \ {first})

(* LIMIT limit OFFSET offset on a result of n rows, limit and offset       *)
(* natural numbers: the positions of the rows that are returned            *)
LimitOffset(n, limit, offset) ==
    {i \in 1..n : offset < i /\ i <= offset + limit}

(* AccessLog built from a selected row: granted is the stored integer,     *)
(* timestamp is parsed back from the stored text                           *)
RowLog(row) == [row EXCEPT !.granted = SqlBool(row.granted)]

(* Variant: the OFFSET is not applied *)
get_access_logs_IgnoresOffset(logs, limit, offset, ok) ==
    IF ~ok THEN <<>>
    ELSE LET ordered == OrderByTimestampDesc({logs[i] : i \in 1..Len(logs)})
             last == Cardinality(LimitOffset(Len(ordered), limit, 0))
         IN [i \in 1..last |-> RowLog(ordered[i])]

(* SELECT ... FROM access_logs ORDER BY timestamp DESC LIMIT ? OFFSET ?;   *)
(* an exception is logged and the rows read so far, none, are returned     *)
get_access_logs(logs, limit, offset, ok) ==
    IF ~ok THEN <<>>
    ELSE LET ordered == OrderByTimestampDesc({logs[i] : i \in 1..Len(logs)})
             count == Cardinality(LimitOffset(Len(ordered), limit, offset))
         IN [i \in 1..count |-> RowLog(ordered[offset + i])]

(* AccessLog built by log_api_access from its arguments *)
ApiAccessLog(barcode, granted, user_id, reason, source, localnow) ==
    [id |-> 0, timestamp |-> localnow, barcode |-> barcode,
     granted |-> granted, user_id |-> Some(user_id), user_name |-> None,
     reason |-> reason, source |-> source]

----------------------------------------------------------------------------
(* State *)

VARIABLES
    now,            \* UTC clock, hours
    ticks,          \* number of clock advances so far
    tz,             \* local time minus UTC, hours
    base_url,       \* config.database.remote.http.base_url
    access_cache,   \* table access_cache: set of rows
    access_logs,    \* table access_logs: sequence of rows in id order
    calls,          \* verify_access coroutines
    cleanup_wake,   \* time at which _periodic_cleanup's sleep ends
    cleanup_task,   \* the task running _periodic_cleanup
    closed,         \* AccessVerifier.close() has completed
    faults          \* number of exceptions injected so far

(* The application around the verifier: hardware.py, api.py, main.py *)
VARIABLES
    mode,           \* how the program was started: "full" or "standalone"
    secs,           \* wall clock of the relay timers, seconds
    relay,          \* level of the door_control output (TRUE = HIGH)
    timers,         \* wake-up times of the pending deactivate threads
    opens,          \* history: the open_door calls made so far
    handled,        \* scans whose dispatch coroutine has finished
    requests,       \* number of operator requests served by the API
    page            \* the latest answer of get_access_logs

(* The parts of the program outside the decision path: logging_system.py, *)
(* barcode_scanner.py, the life cycle of main.py                           *)
VARIABLES
    events_buffer,  \* AccessControlLogger._events_buffer
    events_logged,  \* history: number of _log_event calls so far
    system,         \* AccessControlSystem and the components it starts
    scanner,        \* BarcodeManager, its BarcodeScanner and reader threads
    store           \* the tables of the SQLite file and _init_database

logvars == <<events_buffer, events_logged>>

ext == <<logvars, system, scanner, store>>

hardwarevars == <<mode, secs, relay, timers, opens, handled, requests, page>>

app == <<mode, secs, relay, timers, opens, handled, requests, page, ext>>

(* The variables of the verifier *)
engine == <<now, ticks, tz, base_url, access_cache, access_logs, calls,
            cleanup_wake, cleanup_task, closed, faults>>

vars == <<now, ticks, tz, base_url, access_cache, access_logs, calls,
          cleanup_wake, cleanup_task, closed, faults, app>>

LocalNow == now + tz

(* A verify_access coroutine.  pc is the await it is suspended at, "done"  *)
(* once it has returned result, "raised" if an exception left it.  The     *)
(* other fields record what the call did: after (the calls that had        *)
(* returned when it started), startedAt and doneAt (UTC), hitRow and       *)
(* hitAge (the row a cache hit was built from and its true age then),      *)
(* resp (the HTTP outcome received), branch, remoteCalls, cacheWrites,     *)
(* logAttempts and logId (the id of the audit row it inserted), respAt     *)
(* (when the HTTP outcome arrived), conn (whether the call holds an open   *)
(* aiosqlite connection), afterClose (whether close() had completed when   *)
(* the call started).  logTs is the timestamp of the AccessLog the call    *)
(* has built and is about to insert: datetime.now() at its construction.   *)
IdleCall ==
    [pc |-> "idle", barcode |-> "", source |-> "", result |-> None,
     after |-> {}, startedAt |-> None, doneAt |-> None,
     hitRow |-> None, hitAge |-> None, resp |-> None, branch |-> "",
     remoteCalls |-> 0, cacheWrites |-> 0, logAttempts |-> 0,
     logId |-> None, respAt |-> None, conn |-> FALSE, afterClose |-> FALSE,
     logTs |-> None]

(* The task created by AccessVerifier.__init__: status is "sleeping"       *)
(* between iterations of the loop, "ended" once the coroutine has been     *)
(* left, "cancelled" once the task has been cancelled; last is the outcome *)
(* of the latest iteration and errors the number of failed iterations.     *)
NewCleanupTask ==
    [status |-> "sleeping", last |-> "none", errors |-> 0, returned |-> None]

(* The verifier after construction: empty tables, no call made *)
InitVerifier ==
    /\ now = 0
    /\ ticks = 0
    /\ tz \in TZOffsets
    /\ base_url \in BaseUrls
    /\ access_cache = {}
    /\ access_logs = <<>>
    /\ calls = [c \in Calls |-> IdleCall]
    /\ cleanup_wake = CleanupIntervalHours
    /\ cleanup_task = NewCleanupTask
    /\ closed = FALSE

(* AccessControlSystem after __init__, before start(): running is         *)
(* _running, shutdown_event the asyncio.Event; hardware_monitoring,        *)
(* scanner and system_monitor tell whether the monitoring thread of        *)
(* hardware.py, the reader thread of the scanner and the task of           *)
(* SystemMonitor are running.  The other fields are history: the outcome   *)
(* of start(), the number of stop() calls made on the running system, the  *)
(* outcome of the latest one, and whether main() has left                  *)
(* wait_for_shutdown().                                                    *)
NewSystem ==
    [running |-> FALSE, shutdown_event |-> FALSE,
     hardware_monitoring |-> FALSE, scanner |-> FALSE,
     system_monitor |-> FALSE, started |-> "no", stops |-> 0,
     stopped |-> "no", exited |-> FALSE]

(* Text is a sequence of characters, so that strip and slicing are        *)
(* computed and not assumed                                                *)
CRLF == <<"\r", "\n">>
Whitespace == {"\r", "\n", " "}
Alnum == {"A", "B", "1"}

(* BarcodeScannerConfig: the default suffix and a configured one *)
DefaultSuffix == CRLF
Suffixes == {DefaultSuffix, <<"#">>}

MaxStarts == 2

ReaderThreads == 1..MaxStarts

(* BarcodeManager and its BarcodeScanner after construction.  running is   *)
(* _running, connection the number of the open _serial_connection (0 for   *)
(* None), reader_thread the thread _reader_thread refers to (0 for None),  *)
(* threads the position of each reader thread, access_callback the kind of *)
(* function registered with set_access_callback.  The other fields are     *)
(* history: stop() is inside join (stopping), stop() has returned and      *)
(* start() was not called since (returned), the calls and reads made, the  *)
(* BarcodeEvents delivered to _on_barcode_scanned, what each call of the   *)
(* access callback did, and the tasks it put on the event loop.            *)
NewScanner(suffix) ==
    [config |-> [enabled |-> TRUE, prefix |-> <<>>, suffix |-> suffix],
     running |-> FALSE, connection |-> 0, reader_thread |-> 0,
     threads |-> [t \in ReaderThreads |-> "unborn"],
     access_callback |-> "none",
     stopping |-> FALSE, returned |-> FALSE, starts |-> 0, stops |-> 0,
     reads |-> 0, delivered |-> <<>>, handed |-> <<>>, tasks |-> <<>>]

(* The statements of _init_database, in order: one table each *)
Tables == <<"access_cache", "access_logs", "system_events">>

(* The SQLite file when LocalDatabase.__init__ has scheduled               *)
(* _init_database: tables is what the file holds, statements the number of *)
(* CREATE TABLE statements the task has executed, failed whether it has    *)
(* raised                                                                  *)
NewStore(tables) == [tables |-> tables, statements |-> 0, failed |-> FALSE]

(* The file once _init_database has completed *)
InitialisedStore ==
    [tables |-> {Tables[i] : i \in DOMAIN Tables},
     statements |-> Len(Tables), failed |-> FALSE]

(* The logger after construction: an empty buffer; the system not started; *)
(* the scanner with the default configuration; the store initialised       *)
InitExt ==
    /\ events_buffer = <<>>
    /\ events_logged = 0
    /\ system = NewSystem
    /\ scanner = NewScanner(DefaultSuffix)
    /\ store = InitialisedStore

(* The hardware after _setup_gpio: every relay output LOW, no timer; no    *)
(* request served yet                                                      *)
InitDoor ==
    /\ secs = 0
    /\ relay = FALSE
    /\ timers = {}
    /\ opens = <<>>
    /\ handled = {}
    /\ requests = 0
    /\ page = None

InitHardware ==
    /\ InitDoor
    /\ InitExt

Init ==
    /\ InitVerifier
    /\ InitHardware
    /\ mode = "full"
    /\ faults = 0

----------------------------------------------------------------------------
(* AccessVerifier.verify_access, one action per await *)

Fallback(barcode) == Denied(barcode, "Remote verification unavailable")

(* Variant: the cached result is ignored *)
AfterLookup_IgnoresHit(cached) == "remote"

(* if cached_result: use it, else: check the remote database *)
AfterLookup(cached) == IF cached # None THEN "log" ELSE "remote"

(* Variant: the fallback deny is cached like a remote answer *)
AfterRemote_CachesFallback(barcode, remote) ==
    IF remote # None
    THEN [pc |-> "cache_write", result |-> remote, branch |-> "remote"]
    ELSE [pc |-> "cache_write", result |-> Some(Fallback(barcode)),
          branch |-> "fallback"]

(* Variant: an unavailable remote authority is asked again *)
AfterRemote_RetriesUnavailable(barcode, remote) ==
    IF remote # None
    THEN [pc |-> "cache_write", result |-> remote, branch |-> "remote"]
    ELSE [pc |-> "remote", result |-> None, branch |-> ""]

(* if result: cache it, else: fallback deny.  remote is the optional       *)
(* AccessResult returned by verify_barcode.                                *)
AfterRemote(barcode, remote) ==
    IF remote # None
    THEN [pc |-> "cache_write", result |-> remote, branch |-> "remote"]
    ELSE [pc |-> "log", result |-> Some(Fallback(barcode)),
          branch |-> "fallback"]

(* Variant: no except branch, the exception leaves verify_access *)
OnException_Propagates == "raised"

(* An exception raised in the try block is caught by except Exception *)
OnException == "error"

(* Result returned by the except branch *)
ErrorResult(barcode) == Denied(barcode, "Verification error")

(* Variant: cache_access_result lets its exception out, into the except   *)
(* branch of verify_access                                                 *)
AfterCacheWrite_Raises(ok) == IF ok THEN "log" ELSE OnException

(* cache_access_result catches and logs its own exceptions: verify_access  *)
(* goes on to the audit write whether or not the row was written           *)
AfterCacheWrite(ok) == "log"

(* Variant: the connection opened by a store operation is kept open        *)
ConnectionAfterBlock_LeftOpen == TRUE

(* Every LocalDatabase method opens its connection with                    *)
(* "async with aiosqlite.connect(...)" and leaves the block, closing the   *)
(* connection, before it returns                                           *)
ConnectionAfterBlock == FALSE

(* Whether an operation completes (TRUE) or raises (FALSE); at most        *)
(* MaxFaults operations raise in a run.                                    *)
Outcomes == IF faults < MaxFaults THEN {TRUE, FALSE} ELSE {TRUE}
Count(ok) == IF ok THEN faults ELSE faults + 1

Returned == {c \in Calls : calls[c].pc = "done"}

(* A caller (scanner dispatch, API handler) invokes verify_access, which   *)
(* runs to its first await: cached_result = await get_cached_access(...).  *)
(* ok = FALSE is an exception inside get_cached_access, which it logs and  *)
(* turns into None.                                                        *)
CacheLookup(c, barcode, ok) ==
    /\ calls[c].pc = "idle"
    /\ IF c = 1 THEN TRUE ELSE calls[c - 1].pc # "idle"
    /\ LET cached == IF ok
                     THEN get_cached_access(access_cache, barcode, LocalNow)
                     ELSE None
           rows == {r \in access_cache : r.barcode = barcode}
           row == CHOOSE r \in rows : TRUE
           started == [calls[c] EXCEPT !.pc = AfterLookup(cached),
                                       !.barcode = barcode,
                                       !.source = SourceOf(c),
                                       !.after = Returned,
                                       !.startedAt = Some(now),
                                       !.conn = ConnectionAfterBlock,
                                       !.afterClose = closed,
                                       !.logTs =
                                           IF AfterLookup(cached) = "log"
                                           THEN Some(LocalNow) ELSE None]
       IN calls' = [calls EXCEPT ![c] =
                       IF cached # None
                       THEN [started EXCEPT !.result = cached,
                                            !.branch = "hit",
                                            !.hitRow = Some(row),
                                            !.hitAge =
                                                Some(now - row.cached_at)]
                       ELSE started]
    /\ faults' = Count(ok)
    /\ UNCHANGED <<now, ticks, tz, base_url, access_cache, access_logs,
                   cleanup_wake, cleanup_task, closed>>
    /\ UNCHANGED app

(* result = await verify_barcode(barcode).  Not configured: None at once.  *)
(* clientOk = FALSE is an exception of _get_client, raised outside         *)
(* verify_barcode's try block.  Otherwise client.post resolves with resp.  *)
RemoteVerify(c, clientOk, resp) ==
    /\ calls[c].pc = "remote"
    /\ LET barcode == calls[c].barcode
           next == AfterRemote(barcode,
                               IF RemoteConfigured(base_url)
                               THEN verify_barcode(barcode, resp)
                               ELSE None)
       IN calls' = [calls EXCEPT ![c] =
                       IF RemoteConfigured(base_url) /\ ~clientOk
                       THEN [@ EXCEPT !.pc = OnException,
                                      !.branch = "error",
                                      !.logTs = Some(LocalNow)]
                       ELSE [@ EXCEPT !.pc = next.pc,
                                      !.logTs = IF next.pc = "log"
                                                THEN Some(LocalNow) ELSE None,
                                      !.result = next.result,
                                      !.branch = next.branch,
                                      !.resp = IF RemoteConfigured(base_url)
                                               THEN Some(resp) ELSE None,
                                      !.respAt =
                                          IF RemoteConfigured(base_url)
                                          THEN Some(now) ELSE None,
                                      !.remoteCalls =
                                          IF RemoteConfigured(base_url)
                                          THEN @ + 1 ELSE @]]
    /\ faults' = IF RemoteConfigured(base_url) THEN Count(clientOk)
                 ELSE faults
    /\ UNCHANGED <<now, ticks, tz, base_url, access_cache, access_logs,
                   cleanup_wake, cleanup_task, closed>>
    /\ UNCHANGED app

(* await cache_access_result(result); ok = FALSE is an exception inside    *)
(* it, logged and swallowed.                                               *)
CacheWrite(c, ok) ==
    /\ calls[c].pc = "cache_write"
    /\ access_cache' = IF ok
                       THEN cache_access_result(access_cache,
                                                calls[c].result[1], now)
                       ELSE access_cache
    /\ calls' = [calls EXCEPT ![c] =
                    [@ EXCEPT !.pc = AfterCacheWrite(ok),
                              !.logTs = Some(LocalNow),
                              !.conn = ConnectionAfterBlock,
                              !.cacheWrites = IF ok THEN @ + 1 ELSE @]]
    /\ faults' = Count(ok)
    /\ UNCHANGED <<now, ticks, tz, base_url, access_logs, cleanup_wake,
                   cleanup_task, closed>>
    /\ UNCHANGED app

(* await log_access_attempt(log_entry); return result.  ok = FALSE is an   *)
(* exception inside log_access_attempt, logged and swallowed.              *)
LogAttempt(c, ok) ==
    /\ calls[c].pc = "log"
    /\ access_logs' = IF ok
                      THEN log_access_attempt(access_logs,
                               AccessLog(calls[c].barcode, calls[c].result[1],
                                         calls[c].source, calls[c].logTs[1]))
                      ELSE access_logs
    /\ calls' = [calls EXCEPT ![c] =
                    [@ EXCEPT !.pc = "done",
                              !.doneAt = Some(now),
                              !.conn = ConnectionAfterBlock,
                              !.logAttempts = @ + 1,
                              !.logId = IF ok THEN Some(Len(access_logs) + 1)
                                        ELSE None]]
    /\ faults' = Count(ok)
    /\ UNCHANGED <<now, ticks, tz, base_url, access_cache, cleanup_wake,
                   cleanup_task, closed>>
    /\ UNCHANGED app

(* except Exception: denied result, log_access_attempt inside try/except,  *)
(* return result                                                           *)
ErrorLog(c, ok) ==
    /\ calls[c].pc = "error"
    /\ access_logs' = IF ok
                      THEN log_access_attempt(access_logs,
                               ErrorAccessLog(calls[c].barcode,
                                              calls[c].source,
                                              calls[c].logTs[1]))
                      ELSE access_logs
    /\ calls' = [calls EXCEPT ![c] =
                    [@ EXCEPT !.pc = "done",
                              !.result = Some(ErrorResult(calls[c].barcode)),
                              !.doneAt = Some(now),
                              !.conn = ConnectionAfterBlock,
                              !.logAttempts = @ + 1,
                              !.logId = IF ok THEN Some(Len(access_logs) + 1)
                                        ELSE None]]
    /\ faults' = Count(ok)
    /\ UNCHANGED <<now, ticks, tz, base_url, access_cache, cleanup_wake,
                   cleanup_task, closed>>
    /\ UNCHANGED app

----------------------------------------------------------------------------
(* AccessVerifier._periodic_cleanup and the clock *)

(* Variant: an exception in an iteration ends the loop *)
AfterCleanupError_Ends == "ended"

(* except Exception inside "while True": the error is logged and the loop  *)
(* goes back to sleep                                                      *)
AfterCleanupError == "sleeping"

(* One iteration: sleep(3600) has elapsed, cleanup_old_cache() runs with   *)
(* its default max age; ok = FALSE is an iteration that raised.            *)
CleanupTick(ok) ==
    /\ cleanup_task.status = "sleeping"
    /\ now >= cleanup_wake
    /\ access_cache' = IF ok
                       THEN cleanup_old_cache(access_cache, LocalNow,
                                              DefaultMaxAgeHours)
                       ELSE access_cache
    /\ cleanup_wake' = now + CleanupIntervalHours
    /\ cleanup_task' =
           IF ok THEN [cleanup_task EXCEPT
                           !.last = "ok",
                           !.returned = cleanup_old_cache_returns(
                               access_cache, LocalNow, DefaultMaxAgeHours)]
           ELSE [cleanup_task EXCEPT !.status = AfterCleanupError,
                                     !.last = "error",
                                     !.errors = @ + 1]
    /\ faults' = Count(ok)
    /\ UNCHANGED <<now, ticks, tz, base_url, access_logs, calls, closed>>
    /\ UNCHANGED app

(* Variant: close() cancels the cleanup task *)
TaskAfterClose_Cancelled(task) == [task EXCEPT !.status = "cancelled"]

(* close() awaits remote_verifier.close() and nothing else: the task       *)
(* created in __init__, of which no reference was kept, is left as it is   *)
TaskAfterClose(task) == task

(* AccessVerifier.close(), awaited once by the shutdown of main.py         *)
(* (stop, guarded by _running) or of the API (shutdown_event)              *)
Close ==
    /\ ~closed
    /\ closed' = TRUE
    /\ cleanup_task' = TaskAfterClose(cleanup_task)
    /\ UNCHANGED <<now, ticks, tz, base_url, access_cache, access_logs,
                   calls, cleanup_wake, faults>>
    /\ UNCHANGED app

(* The clock advances by d hours, at most max times in a run *)
Tick(d, max) ==
    /\ ticks < max
    /\ now' = now + d
    /\ ticks' = ticks + 1
    /\ UNCHANGED <<tz, base_url, access_cache, access_logs, calls,
                   cleanup_wake, cleanup_task, closed, faults>>
    /\ UNCHANGED app

Next ==
    \/ \E c \in Calls, b \in Barcodes, ok \in Outcomes :
           CacheLookup(c, b, ok)
    \/ \E c \in Calls, ok \in Outcomes, resp \in Responses :
           RemoteVerify(c, ok, resp)
    \/ \E c \in Calls, ok \in Outcomes : CacheWrite(c, ok)
    \/ \E c \in Calls, ok \in Outcomes : LogAttempt(c, ok)
    \/ \E c \in Calls, ok \in Outcomes : ErrorLog(c, ok)
    \/ \E ok \in Outcomes : CleanupTick(ok)
    \/ \E d \in TickSteps : Tick(d, MaxTicks)

(* The engine in service *)
Spec == Init /\ [][Next]_vars

(* The engine in service and its shutdown, on a host whose local time is   *)
(* UTC                                                                     *)
InitUTC == Init /\ tz = 0

NextShutdown == Next \/ Close

SpecShutdown == InitUTC /\ [][NextShutdown]_vars

(* The verify_access coroutines alone, at one hour of the clock.  A call   *)
(* is started when its caller chooses; once started, the event loop        *)
(* resumes the coroutine whenever the operation it awaits has completed:   *)
(* each store operation completes and the HTTP request resolves (with an   *)
(* answer, or with the timeout of the client).                             *)
Start == \E c \in Calls, b \in Barcodes, ok \in Outcomes : CacheLookup(c, b, ok)

Resume(c) ==
    \/ \E ok \in Outcomes, resp \in Responses : RemoteVerify(c, ok, resp)
    \/ \E ok \in Outcomes : CacheWrite(c, ok)
    \/ \E ok \in Outcomes : LogAttempt(c, ok)
    \/ \E ok \in Outcomes : ErrorLog(c, ok)

NextCalls == Start \/ \E c \in Calls : Resume(c)

SpecCalls ==
    /\ Init
    /\ [][NextCalls]_vars
    /\ \A c \in Calls : WF_vars(Resume(c))

(* The cleanup task alone, over MaxSleeps advances of the clock, with an   *)
(* idle verifier.  The clock advances, and the event loop resumes the task *)
(* once its sleep has elapsed.                                             *)
Elapse == \E d \in TickSteps : Tick(d, MaxSleeps)

Iteration == \E ok \in Outcomes : CleanupTick(ok)

(* The times at which a sleep of the task can end: every iteration sets    *)
(* the next one an interval after the current time                         *)
WakeTimes ==
    LET longest == CHOOSE m \in TickSteps : \A d \in TickSteps : d <= m
    IN 1..(MaxSleeps * longest + CleanupIntervalHours)

NextCleanup == Iteration \/ Close \/ Elapse

SpecCleanup ==
    /\ Init
    /\ [][NextCleanup]_vars
    /\ WF_vars(Elapse)
    /\ WF_vars(Iteration)

----------------------------------------------------------------------------
(* The hardware: IonoHardware.open_door and set_relay on door_control *)

(* config.hardware.door.unlock_duration *)
unlock_duration == 5

(* duration of the emergency override *)
EmergencyDuration == 30

(* request.duration of POST /access/open: absent, or a number of seconds;  *)
(* the field is an unvalidated Optional[float]                             *)
Durations == {None, Some(2), Some(EmergencyDuration), Some(-1)}

Modes == {"full", "standalone"}

(* threading.Thread(target=deactivate).start(): one more thread that       *)
(* sleeps until due; the threads started before go on sleeping             *)
TimersAfterStart(pending, due) == pending \cup {due}

(* set_relay('door_control', state, duration): the output is driven, and   *)
(* "if duration and state" a thread is started that drives it LOW after    *)
(* time.sleep(duration); time.sleep raises ValueError on a negative        *)
(* length, which ends the thread before it drives anything                 *)
set_relay(state, duration) ==
    /\ relay' = state
    /\ timers' = IF duration # 0 /\ state /\ duration > 0
                 THEN TimersAfterStart(timers, secs + duration)
                 ELSE timers

(* open_door(duration): duration or the configured default, then set_relay *)
(* with it.  trigger and barcode tell the history who called.              *)
open_door(duration, trigger, barcode) ==
    LET d == IF duration = None \/ duration = Some(0)
             THEN unlock_duration ELSE duration[1]
    IN /\ set_relay(TRUE, d)
       /\ opens' = Append(opens, [at |-> secs, duration |-> d,
                                  trigger |-> trigger, barcode |-> barcode])

(* A deactivate thread wakes up: gpio.output(pin, LOW) *)
Deactivate ==
    \E due \in timers :
        /\ secs >= due
        /\ relay' = FALSE
        /\ timers' = timers \ {due}
        /\ UNCHANGED <<now, ticks, tz, base_url, access_cache, access_logs,
                       calls, cleanup_wake, cleanup_task, closed, faults>>
        /\ UNCHANGED <<mode, secs, opens, handled, requests, page>>
        /\ UNCHANGED ext

(* A second passes; a thread whose sleep is over runs first *)
Second ==
    /\ secs < MaxSeconds
    /\ \A due \in timers : due > secs
    /\ secs' = secs + 1
    /\ UNCHANGED <<now, ticks, tz, base_url, access_cache, access_logs,
                   calls, cleanup_wake, cleanup_task, closed, faults>>
    /\ UNCHANGED <<mode, relay, timers, opens, handled, requests, page>>
    /\ UNCHANGED ext

----------------------------------------------------------------------------
(* The application: scanner dispatch (main.py, api.py) and the API routes *)

(* A scan in the full application: the coroutine of the callback, run on   *)
(* the event loop, awaits verify_access(barcode, source="barcode").  How   *)
(* the reader thread hands a scan to the loop is in the scanner section.   *)
Scan(c, barcode, ok) ==
    /\ mode = "full"
    /\ SourceOf(c) = "barcode"
    /\ CacheLookup(c, barcode, ok)

(* POST /access/verify: verify_access(barcode, source="api"), no door *)
verify_barcode_route(c, barcode, ok) ==
    /\ mode = "full"
    /\ SourceOf(c) = "api"
    /\ CacheLookup(c, barcode, ok)

(* The rest of the dispatch coroutine once verify_access has returned:     *)
(* "if result.granted: hardware.open_door()"                               *)
_process_barcode_access(c) ==
    /\ calls[c].pc = "done"
    /\ calls[c].source = "barcode"
    /\ c \notin handled
    /\ handled' = handled \cup {c}
    /\ IF calls[c].result[1].granted
       THEN open_door(None, "scan", calls[c].barcode)
       ELSE UNCHANGED <<relay, timers, opens>>
    /\ UNCHANGED <<now, ticks, tz, base_url, access_cache, access_logs,
                   calls, cleanup_wake, cleanup_task, closed, faults>>
    /\ UNCHANGED <<mode, secs, requests, page>>
    /\ UNCHANGED ext

(* run_standalone's callback: hardware.open_door() for any barcode *)
handle_barcode(barcode) ==
    /\ mode = "standalone"
    /\ Len(opens) < MaxRequests
    /\ open_door(None, "scan", barcode)
    /\ UNCHANGED <<now, ticks, tz, base_url, access_cache, access_logs,
                   calls, cleanup_wake, cleanup_task, closed, faults>>
    /\ UNCHANGED <<mode, secs, handled, requests, page>>
    /\ UNCHANGED ext

(* log_api_access: an AccessLog is built and inserted; ok = FALSE is an    *)
(* exception, which is logged and swallowed                                *)
log_api_access(barcode, granted, user_id, reason, source, ok) ==
    /\ access_logs' =
           IF ok
           THEN log_access_attempt(access_logs,
                    ApiAccessLog(barcode, granted, user_id, reason, source,
                                 LocalNow))
           ELSE access_logs
    /\ faults' = Count(ok)

(* POST /emergency/override: the record is written, then the door is       *)
(* opened for 30 seconds                                                   *)
emergency_override(ok) ==
    /\ mode = "full"
    /\ requests < MaxRequests
    /\ requests' = requests + 1
    /\ log_api_access("EMERGENCY", TRUE, "admin", "Emergency override",
                      "emergency", ok)
    /\ open_door(Some(EmergencyDuration), "emergency", "EMERGENCY")
    /\ UNCHANGED <<now, ticks, tz, base_url, access_cache, calls,
                   cleanup_wake, cleanup_task, closed>>
    /\ UNCHANGED <<mode, secs, handled, page>>
    /\ UNCHANGED ext

(* POST /access/open: the door is opened for request.duration, and the     *)
(* background task writes the record once the response is out              *)
open_door_route(duration, ok) ==
    /\ mode = "full"
    /\ requests < MaxRequests
    /\ requests' = requests + 1
    /\ open_door(duration, "api", "API")
    /\ log_api_access("API", TRUE, "admin", "Manual open", "api", ok)
    /\ UNCHANGED <<now, ticks, tz, base_url, access_cache, calls,
                   cleanup_wake, cleanup_task, closed>>
    /\ UNCHANGED <<mode, secs, handled, page>>
    /\ UNCHANGED ext

(* page sizes and offsets of GET /logs/access *)
Limits == 1..2
Offsets == 0..2

(* GET /logs/access?limit=&offset=: the answer, with the length the table  *)
(* had when it was read                                                    *)
get_access_logs_route(limit, offset, ok) ==
    /\ mode = "full"
    /\ requests < MaxReads
    /\ requests' = requests + 1
    /\ page' = Some([limit |-> limit, offset |-> offset, ok |-> ok,
                     of |-> Len(access_logs),
                     rows |-> get_access_logs(access_logs, limit, offset, ok)])
    /\ faults' = Count(ok)
    /\ UNCHANGED <<now, ticks, tz, base_url, access_cache, access_logs,
                   calls, cleanup_wake, cleanup_task, closed>>
    /\ UNCHANGED <<mode, secs, relay, timers, opens, handled>>
    /\ UNCHANGED ext

(* The application on a host whose local time is UTC, with a remote        *)
(* authority configured, started in either mode                            *)
InitApp ==
    /\ InitVerifier
    /\ InitHardware
    /\ tz = 0
    /\ base_url # ""
    /\ mode \in Modes
    /\ faults = 0

NextApp ==
    \/ \E c \in Calls, b \in Barcodes, ok \in Outcomes : Scan(c, b, ok)
    \/ \E c \in Calls, b \in Barcodes, ok \in Outcomes :
           verify_barcode_route(c, b, ok)
    \/ \E c \in Calls : Resume(c)
    \/ \E c \in Calls : _process_barcode_access(c)
    \/ \E b \in Barcodes : handle_barcode(b)
    \/ \E ok \in Outcomes : emergency_override(ok)
    \/ \E d \in Durations, ok \in Outcomes : open_door_route(d, ok)

SpecApp == InitApp /\ [][NextApp]_vars

(* The audit log and its readers: calls, the clock and GET /logs/access.   *)
(* No operation raises in these runs, so the except branch of              *)
(* verify_access is not entered.                                           *)
NextLogs ==
    \/ \E c \in Calls, b \in Barcodes, ok \in Outcomes : Scan(c, b, ok)
    \/ \E c \in Calls, b \in Barcodes, ok \in Outcomes :
           verify_barcode_route(c, b, ok)
    \/ \E c \in Calls, ok \in Outcomes, resp \in Responses :
           RemoteVerify(c, ok, resp)
    \/ \E c \in Calls, ok \in Outcomes : CacheWrite(c, ok)
    \/ \E c \in Calls, ok \in Outcomes : LogAttempt(c, ok)
    \/ \E limit \in Limits, offset \in Offsets, ok \in Outcomes :
           get_access_logs_route(limit, offset, ok)
    \/ \E d \in TickSteps : Tick(d, MaxTicks)

(* Runs of the full application in which no operation raises: the budget *)
(* of injected exceptions is spent from the start                          *)
InitLogs ==
    /\ InitVerifier
    /\ InitHardware
    /\ tz = 0
    /\ base_url # ""
    /\ mode = "full"
    /\ faults = MaxFaults

SpecLogs == InitLogs /\ [][NextLogs]_vars

(* The door alone: openings requested through the API, the timers and the  *)
(* seconds of the clock                                                    *)
NextDoor ==
    \/ \E d \in Durations, ok \in Outcomes : open_door_route(d, ok)
    \/ Deactivate
    \/ Second

SpecDoor == InitUTC /\ [][NextDoor]_vars

(* The door with its scheduling: a deactivate thread whose sleep is over   *)
(* runs, and time passes                                                   *)
SpecDoorLive == SpecDoor /\ WF_vars(Deactivate) /\ WF_vars(Second)

----------------------------------------------------------------------------
(* The system-events buffer: AccessControlLogger._log_event *)

_max_buffer_size == 1000

(* SystemEvent; seq stands for its timestamp and content, the n-th event   *)
(* logged                                                                  *)
SystemEvent(n) == [seq |-> n, event_type |-> "SYSTEM", level |-> "INFO"]

(* Variant: when the buffer is full the new event is the one dropped *)
BufferAfterAppend_DropsNewest(buffer, event) ==
    IF Len(buffer) + 1 > _max_buffer_size THEN buffer
    ELSE Append(buffer, event)

(* self._events_buffer.append(event); if len(...) > max: pop(0) *)
BufferAfterAppend(buffer, event) ==
    LET appended == Append(buffer, event)
    IN IF Len(appended) > _max_buffer_size THEN Tail(appended) ELSE appended

_log_event ==
    /\ events_logged < MaxEvents
    /\ events_logged' = events_logged + 1
    /\ events_buffer' = BufferAfterAppend(events_buffer,
                                          SystemEvent(events_logged + 1))
    /\ UNCHANGED <<engine, hardwarevars, system, scanner, store>>

(* The logger alone *)
SpecEvents == Init /\ [][_log_event]_vars

----------------------------------------------------------------------------
(* The life cycle: AccessControlSystem.start, stop and main() *)

MaxStops == 2

(* Where start() can raise: nowhere, in hardware.start_monitoring() or in  *)
(* system_monitor.start_monitoring(); barcode_manager.start() catches its  *)
(* exceptions and returns False                                            *)
StartFailures == {"none", "hardware", "system_monitor"}

(* The steps of stop(), in order, and where it can raise *)
StopSteps == <<"system_monitor", "scanner", "hardware", "verifier">>
StopFailures == {"none"} \cup {StopSteps[i] : i \in DOMAIN StopSteps}

(* The position of a step in stop(); 5 stands for no failure *)
StepOf(failure) ==
    IF failure = "none" THEN Len(StopSteps) + 1
    ELSE CHOOSE i \in DOMAIN StopSteps : StopSteps[i] = failure

(* stop() called while _running is False: "if not self._running: return" *)
StopWhenNotRunning(sys) == sys

(* await system.start(): hardware monitoring, the scanner (scannerOk is    *)
(* what barcode_manager.start() returns), the callback, the system         *)
(* monitor, then _running = True.  An exception goes to the except branch, *)
(* which awaits stop() and raises again.                                   *)
SystemStart(failure, scannerOk) ==
    /\ system.started = "no"
    /\ system' =
           IF failure = "hardware"
           THEN StopWhenNotRunning([system EXCEPT !.started = "failed"])
           ELSE IF failure = "system_monitor"
           THEN StopWhenNotRunning(
                    [system EXCEPT !.hardware_monitoring = TRUE,
                                   !.scanner = scannerOk,
                                   !.started = "failed"])
           ELSE [system EXCEPT !.hardware_monitoring = TRUE,
                               !.scanner = scannerOk,
                               !.system_monitor = TRUE,
                               !.running = TRUE,
                               !.started = "ok"]
    /\ UNCHANGED <<engine, hardwarevars, logvars, scanner, store>>

(* The end of stop(): _running = False and _shutdown_event.set() are the   *)
(* last statements of the try block, skipped when a step has raised        *)
AfterStopSteps(sys, failure) ==
    IF failure = "none"
    THEN [sys EXCEPT !.running = FALSE, !.shutdown_event = TRUE]
    ELSE sys

(* await system.stop() on the running system, from the signal handler's    *)
(* task or from the finally clause of main(): the steps before the one     *)
(* that raises are carried out, the exception is logged                    *)
SystemStop(failure) ==
    /\ system.running
    /\ system.stops < MaxStops
    /\ LET k == StepOf(failure)
           stepped == [system EXCEPT
                          !.system_monitor = IF k > 1 THEN FALSE ELSE @,
                          !.scanner = IF k > 2 THEN FALSE ELSE @,
                          !.hardware_monitoring = IF k > 3 THEN FALSE ELSE @,
                          !.stops = @ + 1,
                          !.stopped = IF failure = "none" THEN "ok"
                                      ELSE "failed"]
       IN /\ system' = AfterStopSteps(stepped, failure)
          /\ closed' = IF k > 4 THEN TRUE ELSE closed
    /\ UNCHANGED <<now, ticks, tz, base_url, access_cache, access_logs,
                   calls, cleanup_wake, cleanup_task, faults>>
    /\ UNCHANGED <<hardwarevars, logvars, scanner, store>>

(* main(): "await system.wait_for_shutdown()" returns once the event is    *)
(* set; the finally clause then awaits stop(), a no-op by then             *)
WaitForShutdownReturns ==
    /\ system.started = "ok"
    /\ system.shutdown_event
    /\ ~system.exited
    /\ system' = [StopWhenNotRunning(system) EXCEPT !.exited = TRUE]
    /\ UNCHANGED <<engine, hardwarevars, logvars, scanner, store>>

NextSystem ==
    \/ \E failure \in StartFailures, scannerOk \in BOOLEAN :
           SystemStart(failure, scannerOk)
    \/ \E failure \in StopFailures : SystemStop(failure)
    \/ WaitForShutdownReturns

(* The life cycle alone; the event loop resumes main() once the event it   *)
(* waits for is set                                                        *)
SpecSystem == Init /\ [][NextSystem]_vars /\ WF_vars(WaitForShutdownReturns)

----------------------------------------------------------------------------
(* The barcode scanner: BarcodeScanner, its reader threads, BarcodeManager *)

MaxScans == 2

(* str.strip(): leading and trailing whitespace removed *)
RECURSIVE lstrip(_)
lstrip(s) ==
    IF s # <<>> /\ Head(s) \in Whitespace THEN lstrip(Tail(s)) ELSE s

RECURSIVE rstrip(_)
rstrip(s) ==
    IF s # <<>> /\ s[Len(s)] \in Whitespace
    THEN rstrip(SubSeq(s, 1, Len(s) - 1))
    ELSE s

strip(s) == rstrip(lstrip(s))

startswith(s, prefix) ==
    Len(prefix) <= Len(s) /\ SubSeq(s, 1, Len(prefix)) = prefix

endswith(s, suffix) ==
    /\ Len(suffix) <= Len(s)
    /\ SubSeq(s, Len(s) - Len(suffix) + 1, Len(s)) = suffix

(* s[start:] for start >= 0 *)
SliceFrom(s, start) == SubSeq(s, start + 1, Len(s))

(* s[:stop]: a negative stop counts from the end, and -0 is 0 *)
SliceTo(s, stop) ==
    LET end == IF stop < 0 THEN Len(s) + stop ELSE stop
        clipped == IF end < 0 THEN 0 ELSE IF end > Len(s) THEN Len(s) ELSE end
    IN SubSeq(s, 1, clipped)

(* _process_barcode_data up to the event: the barcode it would deliver,    *)
(* empty when it delivers nothing                                          *)
_process_barcode_data(data, config) ==
    LET raw_string == strip(data)
        unprefixed == IF config.prefix # <<>>
                         /\ startswith(raw_string, config.prefix)
                      THEN SliceFrom(raw_string, Len(config.prefix))
                      ELSE raw_string
        unsuffixed == IF config.suffix # <<>>
                         /\ endswith(unprefixed, strip(config.suffix))
                      THEN SliceTo(unprefixed, 0 - Len(strip(config.suffix)))
                      ELSE unprefixed
    IN IF raw_string = <<>> THEN <<>> ELSE strip(unsuffixed)

(* str.replace(ch, '') and str.isalnum() *)
Without(s, ch) == SelectSeq(s, LAMBDA c : c # ch)

isalnum(s) == s # <<>> /\ \A i \in DOMAIN s : s[i] \in Alnum

_is_valid_barcode(barcode) ==
    /\ barcode # <<>>
    /\ Len(barcode) >= 3
    /\ isalnum(Without(Without(barcode, " "), "-"))

(* What a read returns: a line of the scanner, or nothing (timeout, closed *)
(* port, exception)                                                        *)
RawData ==
    {<<"A", "B", "1">> \o CRLF, <<"A", "B", "1", "#">> \o CRLF,
     <<"A", "!">> \o CRLF}

(* The functions registered with set_access_callback: main.py's            *)
(* handle_barcode_access, api.py's async handle_barcode_access,            *)
(* run_standalone's handle_barcode                                         *)
CallbackKinds == {"main", "api", "standalone"}

(* The thread of the event loop; reader threads are numbered from 1 *)
EventLoopThread == 0

(* asyncio.create_task needs the running loop of the calling thread *)
create_task(thread) ==
    IF thread = EventLoopThread THEN "scheduled" ELSE "RuntimeError"

(* What calling the access callback in a thread does: main.py's calls      *)
(* create_task; api.py's is a coroutine function, and calling it only      *)
(* builds a coroutine object that nobody awaits; run_standalone's opens    *)
(* the door                                                                *)
AccessCallback(kind, thread) ==
    CASE kind = "main" -> create_task(thread)
      [] kind = "api" -> "never awaited"
      [] kind = "standalone" -> "door opened"

is_connected(sc) == sc.running /\ sc.connection # 0

(* barcode_manager.set_access_callback(callback), once, by the entry point *)
set_access_callback(kind) ==
    /\ scanner.access_callback = "none"
    /\ (kind = "standalone") <=> (mode = "standalone")
    /\ scanner' = [scanner EXCEPT !.access_callback = kind]
    /\ UNCHANGED <<engine, hardwarevars, logvars, system, store>>

(* BarcodeScanner.start(), called in the thread of the entry point.        *)
(* connect tells how _connect ends: the connection is made; the            *)
(* constructor of the port raises; or the port, already opened by its      *)
(* constructor, raises in open() after _serial_connection was assigned.    *)
ScannerStart(connect) ==
    /\ ~scanner.stopping
    /\ scanner.starts < MaxStarts
    /\ scanner' =
           IF ~scanner.config.enabled
           THEN [scanner EXCEPT !.starts = @ + 1]
           ELSE IF scanner.running
           THEN [scanner EXCEPT !.starts = @ + 1]
           ELSE IF connect = "connected"
           THEN [scanner EXCEPT !.starts = @ + 1,
                                !.connection = scanner.starts + 1,
                                !.running = TRUE,
                                !.reader_thread = scanner.starts + 1,
                                !.threads[scanner.starts + 1] = "check",
                                !.returned = FALSE]
           ELSE IF connect = "open raises"
           THEN [scanner EXCEPT !.starts = @ + 1,
                                !.connection = scanner.starts + 1]
           ELSE [scanner EXCEPT !.starts = @ + 1]
    /\ UNCHANGED <<engine, hardwarevars, logvars, system, store>>

Connects == {"connected", "constructor raises", "open raises"}

(* BarcodeScanner.stop() up to the join: a no-op when not running,         *)
(* otherwise _running = False and the caller waits in join(timeout=5)      *)
ScannerStopBegin ==
    /\ ~scanner.stopping
    /\ scanner.stops < MaxStops
    /\ scanner' =
           IF ~scanner.running
           THEN [scanner EXCEPT !.stops = @ + 1, !.returned = TRUE]
           ELSE [scanner EXCEPT !.stops = @ + 1,
                                !.running = FALSE,
                                !.stopping = TRUE]
    /\ UNCHANGED <<engine, hardwarevars, logvars, system, store>>

(* The join returns, because the reader thread has ended or because five   *)
(* seconds have passed while it is still in a read or in the callback;     *)
(* stop() does not look at which, disconnects and returns                  *)
ScannerStopEnd(timeout) ==
    /\ scanner.stopping
    /\ IF timeout
       THEN scanner.threads[scanner.reader_thread] # "ended"
       ELSE scanner.threads[scanner.reader_thread] = "ended"
    /\ scanner' = [scanner EXCEPT !.connection = 0,
                                  !.stopping = FALSE,
                                  !.returned = TRUE]
    /\ UNCHANGED <<engine, hardwarevars, logvars, system, store>>

(* _read_loop: "while self._running and self._serial_connection" *)
ReaderCheck(t) ==
    /\ scanner.threads[t] = "check"
    /\ scanner' = [scanner EXCEPT
                      !.threads[t] = IF scanner.running
                                        /\ scanner.connection # 0
                                     THEN "read" ELSE "ended"]
    /\ UNCHANGED <<engine, hardwarevars, logvars, system, store>>

(* _read_loop: the read returns data, which _process_barcode_data turns    *)
(* into a BarcodeEvent for _on_barcode_scanned, which hands a valid        *)
(* barcode to the access callback, all in the reader thread t; exceptions  *)
(* of the callback are logged                                              *)
ReaderRead(t, data) ==
    /\ scanner.threads[t] = "read"
    /\ data # <<>> => scanner.reads < MaxScans
    /\ LET barcode == _process_barcode_data(data, scanner.config)
           event == [barcode |-> barcode, thread |-> t,
                     read |-> scanner.reads + 1,
                     after_stop |-> scanner.returned]
           called == /\ barcode # <<>>
                     /\ _is_valid_barcode(barcode)
                     /\ scanner.access_callback # "none"
           outcome == AccessCallback(scanner.access_callback, t)
       IN /\ scanner' =
                 [scanner EXCEPT
                     !.threads[t] = "check",
                     !.reads = IF data # <<>> THEN @ + 1 ELSE @,
                     !.delivered = IF barcode # <<>>
                                   THEN Append(@, event) ELSE @,
                     !.handed = IF called
                                THEN Append(@, [barcode |-> barcode,
                                                outcome |-> outcome])
                                ELSE @,
                     !.tasks = IF called /\ outcome = "scheduled"
                               THEN Append(@, barcode) ELSE @]
          /\ IF called /\ outcome = "door opened"
             THEN open_door(None, "scan", barcode)
             ELSE UNCHANGED <<relay, timers, opens>>
    /\ UNCHANGED <<mode, secs, handled, requests, page>>
    /\ UNCHANGED <<engine, logvars, system, store>>

NextScanner ==
    \/ \E kind \in CallbackKinds : set_access_callback(kind)
    \/ \E connect \in Connects : ScannerStart(connect)
    \/ ScannerStopBegin
    \/ \E timeout \in BOOLEAN : ScannerStopEnd(timeout)
    \/ \E t \in ReaderThreads : ReaderCheck(t)
    \/ \E t \in ReaderThreads, data \in RawData \cup {<<>>} :
           ReaderRead(t, data)

(* The scanner of either entry point, with the default or a configured     *)
(* suffix                                                                  *)
InitScanner ==
    /\ InitVerifier
    /\ InitDoor
    /\ events_buffer = <<>>
    /\ events_logged = 0
    /\ system = NewSystem
    /\ scanner \in {NewScanner(suffix) : suffix \in Suffixes}
    /\ store = InitialisedStore
    /\ tz = 0
    /\ base_url # ""
    /\ mode \in Modes
    /\ faults = MaxFaults

SpecScanner == InitScanner /\ [][NextScanner]_vars

(* The threads are scheduled: a reader thread takes its next step, a join  *)
(* returns                                                                 *)
SpecScannerLive ==
    /\ SpecScanner
    /\ WF_vars(\E t \in ReaderThreads : ReaderCheck(t))
    /\ WF_vars(\E t \in ReaderThreads, data \in RawData \cup {<<>>} :
                   ReaderRead(t, data))
    /\ WF_vars(\E timeout \in BOOLEAN : ScannerStopEnd(timeout))

----------------------------------------------------------------------------
(* The store at start-up: _init_database and the first verify_access calls *)

(* One step of the task created by LocalDatabase.__init__: the next        *)
(* CREATE TABLE IF NOT EXISTS; ok = FALSE is an exception, which is logged *)
(* and ends the task                                                       *)
_init_database(ok) ==
    /\ store.statements < Len(Tables)
    /\ ~store.failed
    /\ store' = IF ok
                THEN [store EXCEPT
                         !.tables = @ \cup {Tables[store.statements + 1]},
                         !.statements = @ + 1]
                ELSE [store EXCEPT !.failed = TRUE]
    /\ UNCHANGED <<engine, hardwarevars, logvars, system, scanner>>

(* A statement on a table succeeds when the file has the table; otherwise  *)
(* sqlite raises "no such table", which the operation logs and swallows    *)
HasTable(table) == table \in store.tables

(* verify_access while _init_database may still be running: its store      *)
(* operations open their own connection to the same file                   *)
VerifyAtStartup ==
    \/ \E c \in Calls, b \in Barcodes :
           CacheLookup(c, b, HasTable("access_cache"))
    \/ \E c \in Calls, resp \in Responses : RemoteVerify(c, TRUE, resp)
    \/ \E c \in Calls : CacheWrite(c, HasTable("access_cache"))
    \/ \E c \in Calls : LogAttempt(c, HasTable("access_logs"))

NextStartup ==
    \/ \E ok \in BOOLEAN : _init_database(ok)
    \/ VerifyAtStartup

(* Right after construction, on a new file or on the file of an earlier    *)
(* run                                                                     *)
InitStartup ==
    /\ InitVerifier
    /\ InitDoor
    /\ events_buffer = <<>>
    /\ events_logged = 0
    /\ system = NewSystem
    /\ scanner = NewScanner(DefaultSuffix)
    /\ store \in {NewStore({}), NewStore(InitialisedStore.tables)}
    /\ tz = 0
    /\ base_url # ""
    /\ mode = "full"
    /\ faults = 0

SpecStartup == InitStartup /\ [][NextStartup]_vars

----------------------------------------------------------------------------
(* Vocabulary of the properties *)

Res(c) == calls[c].result[1]

(* Classes of HTTP outcome, read off the outcome itself *)
ExplicitResp(r) == r.status = 200 /\ r.json = "object"
MalformedResp(r) == r.status = 200 /\ r.json # "object"
NotFoundResp(r) == r.status = 404
UnavailableResp(r) ==
    r.status \notin {200, 404} \/ (r.status = 200 /\ r.json = "invalid")

(* The call missed the cache and its remote outcome was Unavailable *)
Unavail(c) ==
    /\ calls[c].pc \in {"cache_write", "log", "done"}
    /\ calls[c].hitRow = None
    /\ IF RemoteConfigured(base_url)
       THEN calls[c].resp # None /\ UnavailableResp(calls[c].resp[1])
       ELSE TRUE

(* The decision fixed by the lookup and the remote outcome of a call that   *)
(* has passed them                                                         *)
Decision(c) ==
    IF calls[c].branch = "hit" THEN RowResult(calls[c].hitRow[1])
    ELSE IF calls[c].branch = "remote"
    THEN verify_barcode(calls[c].barcode, calls[c].resp[1])[1]
    ELSE IF calls[c].branch = "fallback" THEN Fallback(calls[c].barcode)
    ELSE ErrorResult(calls[c].barcode)

(* The audit record inserted by a returned call *)
Audit(c) == access_logs[calls[c].logId[1]]

(* A cache row without the time of its write *)
Content(row) == [f \in DOMAIN row \ {"cached_at"} |-> row[f]]

(* Fields of a response body as the cache should hold them *)
BodyUserName(data) ==
    IF "user_name" \in DOMAIN data THEN Some(data["user_name"])
    ELSE Get(data, "name")

----------------------------------------------------------------------------
(* C1: verify_access returns granted=true only if, during that call, the   *)
(* remote authority answered HTTP 200 with an explicit grant, or a cache   *)
(* row for the identifier with granted=true written less than the          *)
(* validity window (1 hour) earlier was read.                              *)
C1_FailSafeGrant ==
    \A c \in Calls :
        (calls[c].pc = "done" /\ Res(c).granted) =>
            \/ /\ calls[c].resp # None
               /\ ExplicitResp(calls[c].resp[1])
               /\ GetOr(calls[c].resp[1].data, "access_granted", FALSE)
            \/ /\ calls[c].hitRow # None
               /\ calls[c].hitRow[1].barcode = calls[c].barcode
               /\ calls[c].hitRow[1].granted = 1
               /\ calls[c].hitAge[1] < CacheValidityHours

(* C2: on a cache miss with the remote authority Unavailable, the call     *)
(* returns the fallback deny "Remote verification unavailable" and writes  *)
(* nothing to the cache: every row of the cache, and every cache hit, is   *)
(* owed to another call whose outcome was not Unavailable, so a later      *)
(* call for the identifier asks the remote authority again.                *)
C2_UnavailableNotCached ==
    /\ \A c \in Calls :
           Unavail(c) =>
               /\ calls[c].pc \in {"log", "done"}
               /\ calls[c].result = Some(Fallback(calls[c].barcode))
               /\ calls[c].cacheWrites = 0
    /\ \A r \in access_cache :
           \E e \in Calls :
               /\ ~Unavail(e)
               /\ calls[e].cacheWrites = 1
               /\ calls[e].barcode = r.barcode
    /\ \A d \in Calls :
           calls[d].hitRow # None =>
               \E e \in Calls \ {d} :
                   /\ ~Unavail(e)
                   /\ calls[e].cacheWrites = 1
                   /\ calls[e].barcode = calls[d].barcode
    /\ \A c, d \in Calls :
           (/\ c \in calls[d].after
            /\ Unavail(c)
            /\ calls[d].barcode = calls[c].barcode
            /\ \A e \in Calls \ {c, d} : calls[e].cacheWrites = 0
            /\ RemoteConfigured(base_url)
            /\ calls[d].pc \in {"cache_write", "log", "done"}
            /\ calls[d].branch # "error") =>
               calls[d].remoteCalls = 1

C2_Witness ==
    \E c, d \in Calls :
        /\ c \in calls[d].after
        /\ Unavail(c)
        /\ calls[c].resp # None
        /\ calls[d].barcode = calls[c].barcode
        /\ calls[d].pc = "done"
        /\ calls[d].remoteCalls = 1

(* C3: a NotFound outcome (HTTP 404) is never cached: the call that        *)
(* handled it wrote no cache row, and no later call for the identifier is  *)
(* served from the cache on its account.                                   *)
C3_NotFoundNeverCached ==
    \A c \in Calls :
        (calls[c].resp # None /\ NotFoundResp(calls[c].resp[1])) =>
            /\ calls[c].pc # "cache_write"
            /\ calls[c].cacheWrites = 0
            /\ \A d \in Calls :
                   (/\ c \in calls[d].after
                    /\ calls[d].barcode = calls[c].barcode
                    /\ \A e \in Calls \ {c, d} : calls[e].cacheWrites = 0) =>
                       calls[d].hitRow = None

(* C4: an HTTP 200 whose body is not the expected object is Unavailable,   *)
(* never an explicit deny: the call returns the fallback deny and writes   *)
(* no cache row.                                                           *)
C4_MalformedIsUnavailable ==
    \A c \in Calls :
        (calls[c].resp # None /\ MalformedResp(calls[c].resp[1])) =>
            /\ calls[c].pc \in {"log", "done"}
            /\ calls[c].result = Some(Fallback(calls[c].barcode))
            /\ calls[c].cacheWrites = 0

(* C5: when a call received an explicit remote answer and a second call    *)
(* for the same identifier is made within the validity window, both        *)
(* decisions have the same granted, user_id and reason and the second is   *)
(* served from the cache (no operation having raised).                     *)
C5_RepeatWithinWindow ==
    \A c, d \in Calls :
        (/\ faults = 0
         /\ calls[d].pc = "done"
         /\ c \in calls[d].after
         /\ calls[d].barcode = calls[c].barcode
         /\ calls[c].resp # None
         /\ ExplicitResp(calls[c].resp[1])
         /\ calls[d].startedAt[1] - calls[c].doneAt[1] < CacheValidityHours)
        => /\ Res(d).cached
           /\ Res(d).granted = Res(c).granted
           /\ Res(d).user_id = Res(c).user_id
           /\ Res(d).reason = Res(c).reason

(* C6: a lookup returns an entry if and only if a row for the identifier   *)
(* exists and less than 1 hour has elapsed since it was written.           *)
C6_CacheWindow ==
    \A b \in Barcodes :
        (get_cached_access(access_cache, b, LocalNow) # None) <=>
            (\E r \in access_cache :
                 r.barcode = b /\ now - r.cached_at < CacheValidityHours)

(* C7 as stated: the number of audit records equals the number of calls   *)
(* that have returned.                                                     *)
C7_ExactlyOneAudit == Len(access_logs) = Cardinality(Returned)

(* C7 amended: every call makes exactly one audit write, just before it    *)
(* returns, and the write appends one record unless it fails: the records  *)
(* are, one for one, the returned calls whose audit write succeeded.       *)
C7_OneAuditWrite ==
    /\ Len(access_logs) =
           Cardinality({c \in Returned : calls[c].logId # None})
    /\ \A c \in Calls :
           calls[c].logAttempts = IF c \in Returned THEN 1 ELSE 0
    /\ \A c \in Returned :
           calls[c].logId # None =>
               /\ calls[c].logId[1] \in 1..Len(access_logs)
               /\ access_logs[calls[c].logId[1]].id = calls[c].logId[1]
               /\ access_logs[calls[c].logId[1]].barcode = calls[c].barcode
               /\ access_logs[calls[c].logId[1]].source = calls[c].source
               /\ \A d \in Returned \ {c} : calls[d].logId # calls[c].logId

C7_Witness ==
    /\ Returned = Calls
    /\ Len(access_logs) = 1
    /\ \E c, d \in Calls :
           /\ calls[c].logId = None
           /\ calls[d].logId = Some(1)

C9_HitShortCircuits ==
    \A c \in Calls :
        calls[c].hitRow # None =>
            /\ calls[c].pc \in {"log", "done"}
            /\ calls[c].remoteCalls = 0
            /\ calls[c].resp = None
            /\ calls[c].result = Some(RowResult(calls[c].hitRow[1]))
            /\ Res(c).cached

C9_Witness ==
    \E c \in Calls :
        /\ calls[c].hitRow # None
        /\ calls[c].pc = "done"
        /\ Res(c).granted

(* C10: every explicit remote answer, grant or deny, goes to the cache     *)
(* write, and a cache write that does not fail leaves exactly one row for  *)
(* the identifier, holding the response's granted, user_id, user_name and  *)
(* permissions, with cached_at the time of the write.                      *)
C10_ExplicitAnswerCached ==
    [][\A c \in Calls :
          /\ (/\ calls[c].pc = "remote"
              /\ calls'[c].resp # None
              /\ ExplicitResp(calls'[c].resp[1])) =>
                 calls'[c].pc = "cache_write"
          /\ (/\ calls[c].pc = "cache_write"
              /\ calls'[c].pc = "log"
              /\ faults' = faults
              /\ ExplicitResp(calls[c].resp[1])) =>
                 LET data == calls[c].resp[1].data
                     rows == {r \in access_cache' :
                                  r.barcode = calls[c].barcode}
                 IN /\ Cardinality(rows) = 1
                    /\ \A r \in rows :
                           /\ PyTruth(r.granted) =
                                  GetOr(data, "access_granted", FALSE)
                           /\ r.user_id = Get(data, "user_id")
                           /\ r.user_name = BodyUserName(data)
                           /\ JsonLoads(r.permissions) =
                                  GetOr(data, "permissions", <<>>)
                           /\ r.cached_at = now]_vars

C10_Witness ==
    \E c, d \in Calls :
        /\ c # d
        /\ calls[c].barcode = calls[d].barcode
        /\ calls[c].cacheWrites = 1 /\ calls[d].cacheWrites = 1
        /\ calls[c].resp = Some(RespGrant)
        /\ calls[d].resp = Some(RespDeny)
        /\ calls[d].pc = "done" /\ calls[c].pc = "done"

(* C11: a failed cache write or audit write never changes the decision:   *)
(* the failure is swallowed, the call goes on and returns the decision     *)
(* fixed by the lookup and the remote outcome, the one it returns when     *)
(* the write succeeds.                                                     *)
C11_WriteFailureKeepsDecision ==
    \A c \in Calls :
        /\ calls[c].pc = "log" => calls[c].result = Some(Decision(c))
        /\ calls[c].pc = "done" =>
               /\ calls[c].result = Some(Decision(c))
               /\ calls[c].branch = "remote" => calls[c].resp # None

C11_Witness ==
    \E c, d \in Calls :
        /\ calls[c].pc = "done" /\ calls[d].pc = "done"
        /\ calls[c].branch = "remote" /\ calls[d].branch = "remote"
        /\ calls[c].resp = calls[d].resp
        /\ calls[c].cacheWrites = 0 /\ calls[d].cacheWrites = 1
        /\ Res(c).granted
        /\ Res(c) = Res(d)

(* C12 as stated: the audit record of a call has the barcode, granted,     *)
(* user_id and user_name of the returned decision, the decision's reason   *)
(* and the caller's source, on every branch.                               *)
C12_AuditCarriesDecision ==
    \A c \in Returned :
        calls[c].logId # None =>
            /\ Audit(c).barcode = Res(c).barcode
            /\ Audit(c).granted = Res(c).granted
            /\ Audit(c).user_id = Res(c).user_id
            /\ Audit(c).user_name = Res(c).user_name
            /\ Some(Audit(c).reason) = Res(c).reason
            /\ Audit(c).source = SourceOf(c)

(* C12 amended: the audit record of a call has the barcode, granted,       *)
(* user_id and user_name of the returned decision and the caller's source  *)
(* on every branch; its reason is the decision's reason when the decision  *)
(* has one, "Access granted" or "Access denied" when it has none (a cache  *)
(* hit), and on the error branch "Verification error: " followed by the    *)
(* exception's text, where the decision says "Verification error".         *)
C12_AuditRecord ==
    \A c \in Returned :
        calls[c].logId # None =>
            /\ Audit(c).barcode = Res(c).barcode
            /\ Audit(c).granted = Res(c).granted
            /\ Audit(c).user_id = Res(c).user_id
            /\ Audit(c).user_name = Res(c).user_name
            /\ Audit(c).source = SourceOf(c)
            /\ Audit(c).reason =
                   IF calls[c].branch = "error"
                   THEN "Verification error: client"
                   ELSE IF Res(c).reason # None THEN Res(c).reason[1]
                   ELSE IF Res(c).granted THEN "Access granted"
                   ELSE "Access denied"
            /\ calls[c].branch = "error" =>
                   Res(c).reason = Some("Verification error")
            /\ calls[c].branch = "hit" => Res(c).reason = None

C12_Witness ==
    \E c, d \in Returned :
        /\ calls[c].branch = "remote" /\ calls[c].logId # None
        /\ Res(c).reason = Some("Welcome")
        /\ calls[d].branch = "error" /\ calls[d].logId # None
        /\ SourceOf(d) = "api"
        /\ Audit(d).reason = "Verification error: client"

(* C13: the audit log is append-only: no step of verify_access, of the     *)
(* cache writes, of the periodic cleanup or of close deletes or changes a  *)
(* record already written; the sequence only grows and the ids of the      *)
(* records increase strictly in append order.                              *)
C13_AppendOnly ==
    [][/\ Len(access_logs') >= Len(access_logs)
       /\ SubSeq(access_logs', 1, Len(access_logs)) = access_logs
       /\ \A i \in 1..(Len(access_logs') - 1) :
              access_logs'[i].id < access_logs'[i + 1].id]_vars

C13_Witness ==
    /\ Len(access_logs) = MaxCalls
    /\ closed
    /\ cleanup_task.last = "ok"
    /\ \E c \in Calls : calls[c].cacheWrites = 1

(* C14: when two verify_access calls for the same identifier run           *)
(* concurrently, both miss the cache and both receive explicit remote      *)
(* answers, then once both have returned (no operation having raised) the  *)
(* cache row for the identifier holds the content of the answer the        *)
(* remote authority issued last.                                           *)
C14_LastResponseWins ==
    \A c, d \in Calls :
        (/\ c # d
         /\ faults = 0
         /\ calls[c].pc = "done" /\ calls[d].pc = "done"
         /\ c \notin calls[d].after /\ d \notin calls[c].after
         /\ calls[c].barcode = calls[d].barcode
         /\ calls[c].branch = "remote" /\ calls[d].branch = "remote"
         /\ ExplicitResp(calls[c].resp[1])
         /\ ExplicitResp(calls[d].resp[1])
         /\ calls[c].respAt[1] < calls[d].respAt[1])
        => \A r \in access_cache :
               r.barcode = calls[d].barcode =>
                   r = CacheRow(Res(d), r.cached_at)

(* C15: if from time t on the remote authority does not grant an           *)
(* identifier (every grant for it was issued before t), no call for it     *)
(* that starts later than t plus the validity window returns granted=true. *)
C15_StalenessBound ==
    \A d \in Returned :
        \A t \in 0..now :
            (/\ \A c \in Calls :
                    (/\ calls[c].resp # None
                     /\ calls[c].barcode = calls[d].barcode
                     /\ ExplicitResp(calls[c].resp[1])
                     /\ GetOr(calls[c].resp[1].data, "access_granted",
                              FALSE)) =>
                        calls[c].respAt[1] < t
             /\ calls[d].startedAt[1] > t + CacheValidityHours)
            => ~Res(d).granted

C17_WholeRecordReplacement ==
    /\ \A b \in Barcodes :
           Cardinality({r \in access_cache : r.barcode = b}) <= 1
    /\ \A r \in access_cache :
           \E c \in Calls :
               /\ calls[c].cacheWrites = 1
               /\ r = CacheRow(Res(c), r.cached_at)
               /\ r.cached_at >= calls[c].respAt[1]

C17_Witness ==
    \E c, d \in Calls :
        /\ calls[c].barcode = calls[d].barcode
        /\ calls[c].cacheWrites = 1 /\ calls[d].cacheWrites = 1
        /\ calls[c].pc = "done" /\ calls[d].pc = "done"
        /\ Res(c).granted /\ ~Res(d).granted
        /\ Res(c).user_id # Res(d).user_id
        /\ \E r \in access_cache : r = CacheRow(Res(d), r.cached_at)

(* C18: a sweep with the default max age removes all and only the cache    *)
(* rows written more than 24 hours before it: every such row is gone       *)
(* afterwards, every other row and every audit record is unchanged.        *)
C18_CleanupAllAndOnly ==
    [][(cleanup_wake' # cleanup_wake /\ cleanup_task'.last = "ok") =>
           /\ access_cache' =
                  {r \in access_cache :
                       ~(now - r.cached_at > DefaultMaxAgeHours)}
           /\ access_logs' = access_logs]_vars

(* C19: a failed iteration of the periodic cleanup does not end the loop:  *)
(* the task is never left, and after an iteration that raised, a later     *)
(* iteration is executed as long as the clock still advances.              *)
C19_FailedTickNotFatal ==
    /\ [](cleanup_task.status = "sleeping")
    /\ \A w \in WakeTimes :
           (/\ cleanup_task.last = "error"
            /\ cleanup_wake = w
            /\ ticks < MaxSleeps) ~> (cleanup_wake > w)

C19_Witness ==
    /\ cleanup_task.errors = 1
    /\ cleanup_task.last = "ok"
    /\ cleanup_wake > CleanupIntervalHours + 1

(* C20: once close() has completed, the periodic cleanup loop has been     *)
(* cancelled and no further iteration of it runs.                          *)
C20_CloseCancelsCleanup ==
    [][closed =>
           /\ cleanup_task.status = "cancelled"
           /\ cleanup_wake' = cleanup_wake]_vars

(* C21: once close() has been called no new verify_access call is          *)
(* accepted: a call that starts after it performs no remote request and    *)
(* no cache write.                                                         *)
C21_NoNewCallsAfterClose ==
    \A c \in Calls :
        calls[c].afterClose =>
            /\ calls[c].remoteCalls = 0
            /\ calls[c].cacheWrites = 0

(* C22: every verify_access call that has started eventually returns a    *)
(* decision, on every path, when each operation it awaits completes; a     *)
(* remote timeout resolves to the fallback deny and the call goes on.      *)
C22_EveryCallReturns ==
    /\ \A c \in Calls :
           (calls[c].pc # "idle") ~>
               (calls[c].pc = "done" /\ calls[c].result # None)
    /\ [](\A c \in Calls :
             calls[c].resp = Some(RespTimeout) =>
                 /\ calls[c].pc \in {"log", "done"}
                 /\ calls[c].result = Some(Fallback(calls[c].barcode)))

C22_Witness ==
    \E c, d \in Calls :
        /\ calls[c].pc = "done" /\ calls[d].pc = "done"
        /\ calls[c].resp = Some(RespTimeout)
        /\ calls[d].resp = Some(Resp404)
        /\ Res(d).reason = Some("Barcode not found in database")

(* C23: the sweep running among the lookups and upserts of verify_access   *)
(* calls blocks nothing and corrupts nothing: in every state each pending  *)
(* store operation of a call, and a sweep that is due, can be executed,    *)
(* and every cache row, in the table or read by a lookup, is a record      *)
(* that some call wrote in full.                                           *)
C23_SweepNeverBlocksOrCorrupts ==
    /\ \A c \in Calls :
           /\ calls[c].pc = "cache_write" => ENABLED CacheWrite(c, TRUE)
           /\ calls[c].pc = "log" => ENABLED LogAttempt(c, TRUE)
           /\ calls[c].pc = "error" => ENABLED ErrorLog(c, TRUE)
           /\ (calls[c].pc = "idle" /\ \A e \in 1..(c - 1) :
                                           calls[e].pc # "idle") =>
                  \A b \in Barcodes : ENABLED CacheLookup(c, b, TRUE)
    /\ (cleanup_task.status = "sleeping" /\ now >= cleanup_wake) =>
           ENABLED CleanupTick(TRUE)
    /\ \A r \in access_cache :
           \E c \in Calls :
               calls[c].cacheWrites = 1 /\ r = CacheRow(Res(c), r.cached_at)
    /\ \A d \in Calls :
           calls[d].hitRow # None =>
               \E c \in Calls \ {d} :
                   /\ calls[c].cacheWrites = 1
                   /\ calls[d].hitRow[1] =
                          CacheRow(Res(c), calls[d].hitRow[1].cached_at)

C23_Witness ==
    \E c, d \in Calls :
        /\ cleanup_task.last = "ok"
        /\ calls[c].cacheWrites = 1
        /\ \A r \in access_cache : r.barcode # calls[c].barcode
        /\ calls[d].pc = "done"
        /\ calls[d].cacheWrites = 1
        /\ calls[d].startedAt[1] < cleanup_wake - CleanupIntervalHours
        /\ \E r \in access_cache : r.barcode = calls[d].barcode

(* C24: cache_access_result is an idempotent upsert keyed by identifier:   *)
(* on any cache and for any result, writing the result twice leaves what   *)
(* writing it once leaves, one row for the identifier with the same        *)
(* content (cached_at being the time of the latest write); a write leaves  *)
(* the rows of every other identifier as they were, and writes for         *)
(* different identifiers commute.                                          *)
C24_IdempotentUpsert ==
    \A c, d \in Calls :
        (calls[c].result # None /\ calls[d].result # None) =>
            LET W(table, result, t) == cache_access_result(table, result, t)
                T == access_cache
                rc == Res(c)
                rd == Res(d)
            IN \A t1 \in {now}, t2 \in {now, now + 1} :
                   /\ W(W(T, rc, t1), rc, t2) = W(T, rc, t2)
                   /\ {Content(r) : r \in W(W(T, rc, t1), rc, t2)} =
                          {Content(r) : r \in W(T, rc, t1)}
                   /\ Cardinality({r \in W(W(T, rc, t1), rc, t2) :
                                       r.barcode = rc.barcode}) = 1
                   /\ {r \in W(T, rc, t1) : r.barcode # rc.barcode} =
                          {r \in T : r.barcode # rc.barcode}
                   /\ rc.barcode # rd.barcode =>
                          W(W(T, rc, t1), rd, t2) = W(W(T, rd, t2), rc, t1)

C24_Witness ==
    \E c, d \in Calls :
        /\ c \in calls[d].after
        /\ calls[c].barcode = calls[d].barcode
        /\ calls[c].resp = Some(RespGrant) /\ calls[d].resp = Some(RespGrant)
        /\ calls[c].cacheWrites = 1 /\ calls[d].cacheWrites = 1
        /\ calls[d].pc = "done"
        /\ Cardinality(access_cache) = 1
        /\ \A r \in access_cache :
               Content(r) = Content(CacheRow(Res(c), 0))

(* C27: the barcode field of the AccessResult a verify_access call holds   *)
(* or has returned equals the barcode argument of the call, on the cache   *)
(* hit, remote, fallback and error branches alike; on the hit branch the   *)
(* row it was built from is the row of that barcode.                       *)
C27_ResultEchoesBarcode ==
    \A c \in Calls :
        calls[c].result # None =>
            /\ calls[c].result[1].barcode = calls[c].barcode
            /\ calls[c].branch \in {"hit", "remote", "fallback", "error"}
            /\ calls[c].branch = "hit" =>
                   /\ calls[c].hitRow # None
                   /\ calls[c].hitRow[1].barcode = calls[c].barcode

C27_Witness ==
    \E c, d \in Calls :
        /\ calls[c].pc = "done" /\ calls[d].pc = "done"
        /\ calls[c].branch = "remote" /\ calls[d].branch = "hit"
        /\ calls[d].hitRow # None
        /\ calls[c].result[1].barcode = calls[c].barcode
        /\ calls[d].result[1].barcode = calls[d].barcode

(* C28: a sweep that completed has returned the number of rows it deleted, *)
(* the size of the cache before it less the size after it, and 0 when no   *)
(* row was old enough.                                                     *)
C28_CleanupReturnsCount ==
    [][(cleanup_wake' # cleanup_wake /\ cleanup_task'.last = "ok") =>
           cleanup_task'.returned =
               Some(Cardinality(access_cache) - Cardinality(access_cache'))]_vars

(* C25: every audit record with origin "emergency" was inserted by a       *)
(* verify_access call made with that origin, the emergency path taking its *)
(* decision from the verifier.                                             *)
C25_EmergencyThroughVerifier ==
    \A i \in 1..Len(access_logs) :
        access_logs[i].source = "emergency" =>
            \E c \in Calls :
                /\ calls[c].source = "emergency"
                /\ calls[c].logId = Some(i)

(* C30: every opening of the door triggered by a scan follows a            *)
(* verify_access call for the scanned barcode that returned granted, in    *)
(* the full application and in standalone mode.                            *)
C30_ScanOpensOnlyAfterGrant ==
    \A i \in 1..Len(opens) :
        opens[i].trigger = "scan" =>
            \E c \in Calls :
                /\ calls[c].pc = "done"
                /\ calls[c].source = "barcode"
                /\ calls[c].barcode = opens[i].barcode
                /\ calls[c].result[1].granted

(* C29: from each open_door call the relay stays active until the          *)
(* duration of that call has elapsed, whatever other calls were made       *)
(* meanwhile, and is inactive once the durations of all calls have         *)
(* elapsed.                                                                *)
C29_UnlockedForDuration ==
    /\ \A i \in 1..Len(opens) :
           secs < opens[i].at + opens[i].duration => relay
    /\ (opens # <<>> /\ timers = {} /\
           \A i \in 1..Len(opens) :
               secs >= opens[i].at + opens[i].duration) => ~relay

C36_CleanupRemovesOnlyMisses ==
    [][cleanup_wake' # cleanup_wake =>
           \A t \in {LocalNow, LocalNow + 1, LocalNow + DefaultMaxAgeHours} :
               /\ \A r \in access_cache \ access_cache' : ~CacheFresh(r, t)
               /\ \A b \in Barcodes :
                      /\ get_cached_access(access_cache', b, t) =
                             get_cached_access(access_cache, b, t)
                      /\ AfterLookup(get_cached_access(access_cache', b, t)) =
                             AfterLookup(get_cached_access(access_cache, b, t))
      ]_vars

C36_Witness ==
    \E c, d \in Calls :
        /\ cleanup_task.last = "ok"
        /\ calls[c].pc = "done" /\ calls[c].cacheWrites = 1
        /\ calls[d].barcode = calls[c].barcode
        /\ calls[d].startedAt # None
        /\ calls[d].startedAt[1] >= calls[c].doneAt[1] + DefaultMaxAgeHours
        /\ calls[d].pc = "remote"
        /\ \A r \in access_cache : r.barcode # calls[c].barcode

(* C39: the system-events buffer never holds more than _max_buffer_size    *)
(* events, holds the most recent events logged in arrival order, and once  *)
(* full loses exactly its oldest event at each new one.                    *)
C39_BoundedFifo ==
    LET n == Len(events_buffer)
    IN /\ n <= _max_buffer_size
       /\ n = IF events_logged < _max_buffer_size THEN events_logged
              ELSE _max_buffer_size
       /\ \A i \in 1..n :
              events_buffer[i] = SystemEvent(events_logged - n + i)

C39_Witness ==
    /\ Len(events_buffer) = _max_buffer_size
    /\ events_logged = _max_buffer_size + 2
    /\ events_buffer[1].seq = 3

(* C32: whenever the door-control relay is HIGH it is LOW again later.     *)
(* Stated within the horizon of the clock: a relay that is HIGH with every *)
(* pending timer due within MaxSeconds is eventually LOW.                  *)
C32_RelayEventuallyLow ==
    (relay /\ \A due \in timers : due <= MaxSeconds) ~> ~relay

(* C37: when start() has failed, is_running() is false and no component    *)
(* it had started is left running: neither the hardware monitoring thread  *)
(* nor the reader thread of the scanner.                                   *)
C37_FailedStartRolledBack ==
    system.started = "failed" =>
        /\ ~system.running
        /\ ~system.hardware_monitoring
        /\ ~system.scanner
        /\ ~system.system_monitor

(* C38: once stop() has been invoked on the running system, eventually the *)
(* shutdown event is set, _running is false and wait_for_shutdown() has    *)
(* returned, also when a step of stop() raised.                            *)
C38_ShutdownCompletes ==
    (system.stops > 0) ~>
        (system.shutdown_event /\ ~system.running /\ system.exited)

(* C33: over any sequence of start() and stop() calls at most one reader   *)
(* thread is alive in _read_loop, and no read is delivered twice.          *)
C33_OneReaderThread ==
    /\ Cardinality({t \in ReaderThreads :
                        scanner.threads[t] \in {"check", "read"}}) <= 1
    /\ \A i, j \in DOMAIN scanner.delivered :
           i # j => scanner.delivered[i].read # scanner.delivered[j].read

(* C34: once stop() has returned, is_connected() is false and no barcode   *)
(* event is delivered until the scanner is started again, a read that was  *)
(* in flight when stop() was called included.                              *)
C34_NoDeliveryAfterStop ==
    /\ scanner.returned => ~is_connected(scanner)
    /\ \A i \in DOMAIN scanner.delivered : ~scanner.delivered[i].after_stop

(* C31: with the callback of main.py or api.py registered, every valid     *)
(* barcode the reader thread hands to the access callback eventually has   *)
(* its task on the event loop, where verify_access(barcode,                *)
(* source="barcode") runs; no scan is dropped by the hand-off.             *)
C31_ScanReachesVerifier ==
    \A n \in 1..MaxScans :
        (scanner.access_callback \in {"main", "api"}
             /\ Len(scanner.handed) >= n)
            ~> (Len(scanner.tasks) >= n)

(* C35: no cache or audit operation of verify_access runs before           *)
(* _init_database has created its table: none raises for a missing table,  *)
(* and every call that has returned has appended its audit record.         *)
C35_InitPrecedesUse ==
    /\ faults = 0
    /\ \A c \in Returned : calls[c].logId # None

====
